---- MODULE Spec2Model ----
(***************************************************************************)
(* The VDB service of src/vdb_engine: two FAISS indexes (exact L2 and      *)
(* approximate HNSW), their two index files, the MongoDB collection of     *)
(* document records, and the ingest / query / delete operations of         *)
(* VDBService that tie them together.                                      *)
(*                                                                         *)
(* A vector is a record [dim, v]: dim is its length, v stands for its      *)
(* coordinates (vectors of the same length lie on one line, so that the    *)
(* squared L2 distance of two of them is (v1 - v2)^2).  An index is the    *)
(* sequence of the vectors added to it; FAISS numbers them from 0, so      *)
(* position p is element p + 1 of the sequence.  Every index entry also    *)
(* carries `of`, the document name whose ingest appended it (NoId for a    *)
(* direct add_embeddings call): FAISS does not store it, nothing the code  *)
(* does reads it, and the formulas use it to say which document a          *)
(* position belongs to.                                                    *)
(***************************************************************************)
EXTENDS Integers, Sequences, FiniteSets, TLC

VARIABLES
    mongo,       \* the collection: document_name (_id) -> document record
    files,       \* the two index files under VECTORSTORE_BASE_DIR
    ingester,    \* VectorDBIngester's in-memory l2_index and hnsw_index
    retriever,   \* VectorDBRetriever's in-memory l2_index and hnsw_index
    deletor,     \* VectorDBDeletor's in-memory l2_index and hnsw_index
    last,        \* the last call made on its own (from no thread of `writers`
                 \* or `reader`) and what it returned or raised
    onlyIngests, \* every mutating call so far was a successful ingest_data
    deletedNames, \* the names ingested, then deleted and not ingested again
    writers,     \* threads inside ingest_data: where each is and what it holds
    reader,      \* a thread inside get_data: where it is and what it has read
    completed,   \* the names whose ingest_data returned normally
    requests,    \* the /generate request of each client connection
    engine,      \* the calls the /generate handlers made on the LLM engine
    callers,     \* threads inside ModelsManager(): where each is, what it got
    manager,     \* the class ModelsManager: _instance, _lock, what was loaded
    engine_manager, \* the class VLLMEngineManager: _engine, and its last call
    reranker,    \* the last POST /v1/reranker: its request and its response
    launcher,    \* the run of vllm_engine/vllm_server.py
    mongodb_manager \* the last MongoDBManager(): its configuration and outcome

vdb_vars == <<mongo, files, ingester, retriever, deletor, last, onlyIngests, deletedNames>>

thread_vars == <<writers, reader, completed>>

generate_vars == <<requests, engine>>

models_vars == <<callers, manager>>

services_vars == <<engine_manager, reranker, launcher, mongodb_manager>>

\* What the calls on the VDB service leave alone.
not_vdb_vars == <<thread_vars, generate_vars, models_vars, services_vars>>

vars == <<vdb_vars, not_vdb_vars>>

---------------------------------------------------------------------------
(* Bounds and constants *)

\* EMBEDDING_DIM, the dimension both indexes are created with.
D == 1024

\* Most vectors an index holds in the model.
MaxIndex == 2

\* Most vectors one direct add_embeddings call passes.
MaxBatch == 1

\* Largest TOP_N and TOP_K a configuration sets in the model.
MaxTop == 2

\* The document texts of the model.
Texts == {1, 2}

\* The relevance scores the reranker gives in the model.
Scores == {1, 2}

\* document_name is whatever the caller passes, a string or an integer:
\* [kind |-> "str", n |-> k] is the k-th string name, [kind |-> "int", n |-> i]
\* the integer i.  NoId is no document name.
NoId == [kind |-> "none", n |-> 0]

DocIds ==
    {[kind |-> "str", n |-> 1], [kind |-> "int", n |-> 0], [kind |-> "int", n |-> 1]}

\* What a collaborator may be made to do in one call: nothing, or raise at
\* one of the places the code calls out.
Faults == {"none", "summarize", "embed", "insert", "save_l2", "save_hnsw"}

Min(a, b) == IF a < b THEN a ELSE b

---------------------------------------------------------------------------
(* EmbeddingEngine *)

\* The summarizer is a black box from text to a shorter text: summaries are
\* the values 11, 12, ..., distinct from every text.
summarize_text(text) == 10 + text

\* The embedding model is a black box from text to a vector of length D.
generate_embedding(text) == [dim |-> D, v |-> (text % 10) * 4 + (text \div 10)]

\* summary of the document, embedding of the summary.
process_document(document_text) ==
    LET summary == summarize_text(document_text)
    IN  [summary |-> summary, embedding |-> generate_embedding(summary)]

---------------------------------------------------------------------------
(* VectorDBManager: the index files *)

NoFile == [exists |-> FALSE, data |-> <<>>]

\* faiss.read_index when the file exists, a new empty index of dimension D
\* when it does not.
load_l2_index(fs) == IF fs.l2.exists THEN fs.l2.data ELSE <<>>

load_hnsw_index(fs) == IF fs.hnsw.exists THEN fs.hnsw.data ELSE <<>>

\* faiss.write_index of the in-memory index over the file.
save_l2_index(fs, index) == [fs EXCEPT !.l2 = [exists |-> TRUE, data |-> index]]

\* save_hnsw_index that returns without writing the file.
save_hnsw_index_NoWrite(fs, index) == fs

save_hnsw_index(fs, index) == [fs EXCEPT !.hnsw = [exists |-> TRUE, data |-> index]]

\* Ingester, retriever and deletor each load their own copy of both indexes.
LoadBoth(fs) == [l2_index |-> load_l2_index(fs), hnsw_index |-> load_hnsw_index(fs)]

---------------------------------------------------------------------------
(* VectorDBIngester.add_embeddings *)

\* An n x d matrix of float32: rows of one length.  `of` tags the rows.
Rows(embeddings, of) ==
    [i \in 1..Len(embeddings.rows) |->
        [dim |-> embeddings.dim, v |-> embeddings.rows[i], of |-> of]]

\* index.add(x): FAISS asserts x.shape[1] == index.d before it appends.
FaissAddOk(embeddings) == embeddings.dim = D

\* add_embeddings that forgets hnsw_index.add.
add_embeddings_NoHnswAdd(ing, fs, embeddings, of, fault) ==
    IF ~FaissAddOk(embeddings)
    THEN [ingester |-> ing, files |-> fs, raised |-> TRUE, exc |-> "AssertionError"]
    ELSE
        LET added == [l2_index   |-> ing.l2_index \o Rows(embeddings, of),
                      hnsw_index |-> ing.hnsw_index]
            fs1   == save_l2_index(fs, added.l2_index)
            fs2   == save_hnsw_index(fs1, added.hnsw_index)
        IN  IF fault = "save_l2"
            THEN [ingester |-> added, files |-> fs, raised |-> TRUE, exc |-> "RuntimeError"]
            ELSE IF fault = "save_hnsw"
            THEN [ingester |-> added, files |-> fs1, raised |-> TRUE, exc |-> "RuntimeError"]
            ELSE [ingester |-> added, files |-> fs2, raised |-> FALSE, exc |-> "none"]

\* add_embeddings whose exact index takes rows of any width, so that the
\* width is first checked by hnsw_index.add, after l2_index.add appended.
add_embeddings_LateCheck(ing, fs, embeddings, of, fault) ==
    LET l2_added == [ing EXCEPT !.l2_index = @ \o Rows(embeddings, of)]
        added    == [l2_added EXCEPT !.hnsw_index = @ \o Rows(embeddings, of)]
        fs1      == save_l2_index(fs, added.l2_index)
        fs2      == save_hnsw_index(fs1, added.hnsw_index)
    IN  IF ~FaissAddOk(embeddings)
        THEN [ingester |-> l2_added, files |-> fs, raised |-> TRUE, exc |-> "AssertionError"]
        ELSE IF fault = "save_l2"
        THEN [ingester |-> added, files |-> fs, raised |-> TRUE, exc |-> "RuntimeError"]
        ELSE IF fault = "save_hnsw"
        THEN [ingester |-> added, files |-> fs1, raised |-> TRUE, exc |-> "RuntimeError"]
        ELSE [ingester |-> added, files |-> fs2, raised |-> FALSE, exc |-> "none"]

\* add_embeddings that appends and returns without writing the files.
add_embeddings_NoSave(ing, fs, embeddings, of, fault) ==
    IF ~FaissAddOk(embeddings)
    THEN [ingester |-> ing, files |-> fs, raised |-> TRUE, exc |-> "AssertionError"]
    ELSE [ingester |-> [l2_index   |-> ing.l2_index \o Rows(embeddings, of),
                        hnsw_index |-> ing.hnsw_index \o Rows(embeddings, of)],
          files |-> fs, raised |-> FALSE, exc |-> "none"]

\* The whole of add_embeddings on the ingester `ing` and the files `fs`:
\* l2_index.add, hnsw_index.add, save_l2_index, save_hnsw_index, in that
\* order; the first step that raises ends the call and what was done before
\* it stays done.  `fault` names the write that fails, if one does.
add_embeddings(ing, fs, embeddings, of, fault) ==
    IF ~FaissAddOk(embeddings)
    THEN [ingester |-> ing, files |-> fs, raised |-> TRUE, exc |-> "AssertionError"]
    ELSE
        LET added == [l2_index   |-> ing.l2_index \o Rows(embeddings, of),
                      hnsw_index |-> ing.hnsw_index \o Rows(embeddings, of)]
            fs1   == save_l2_index(fs, added.l2_index)
            fs2   == save_hnsw_index(fs1, added.hnsw_index)
        IN  IF fault = "save_l2"
            THEN [ingester |-> added, files |-> fs, raised |-> TRUE, exc |-> "RuntimeError"]
            ELSE IF fault = "save_hnsw"
            THEN [ingester |-> added, files |-> fs1, raised |-> TRUE, exc |-> "RuntimeError"]
            ELSE [ingester |-> added, files |-> fs2, raised |-> FALSE, exc |-> "none"]

---------------------------------------------------------------------------
(* VectorDBRetriever.search_embedding *)

Dist(a, b) == (a.v - b.v) * (a.v - b.v)

\* Entry i of `index` comes before entry j in the result: nearer to the
\* query, or as near and added earlier.
Nearer(index, q, i, j) ==
    \/ Dist(index[i], q) < Dist(index[j], q)
    \/ Dist(index[i], q) = Dist(index[j], q) /\ i < j

\* How many entries come before entry i.
Rank(index, q, i) == Cardinality({j \in 1..Len(index) : Nearer(index, q, j, i)})

\* index.search(q, top_n) on the exact index: the top_n nearest positions in
\* ascending distance, padded with -1 when the index holds fewer.
search_embedding(index, q, top_n) ==
    [k \in 1..top_n |->
        IF k <= Len(index)
        THEN (CHOOSE i \in 1..Len(index) : Rank(index, q, i) = k - 1) - 1
        ELSE -1]

---------------------------------------------------------------------------
(* MongoDBManager *)

NoDocs == [id \in {} |-> NoId]

\* insert_document that replaces a stored document of the same _id (an
\* upsert) instead of refusing it.
insert_document_Upsert(store, document, fault) ==
    IF fault = "insert"
    THEN [store |-> store, raised |-> TRUE, exc |-> "PyMongoError"]
    ELSE [store  |-> [id \in DOMAIN store \cup {document.id} |->
                         IF id = document.id THEN document ELSE store[id]],
          raised |-> FALSE, exc |-> "none"]

\* collection.insert_one: MongoDB refuses a second document with the same
\* _id (DuplicateKeyError); `fault` makes the server fail the insert.
insert_document(store, document, fault) ==
    IF document.id \in DOMAIN store
    THEN [store |-> store, raised |-> TRUE, exc |-> "DuplicateKeyError"]
    ELSE IF fault = "insert"
    THEN [store |-> store, raised |-> TRUE, exc |-> "PyMongoError"]
    ELSE [store  |-> [id \in DOMAIN store \cup {document.id} |->
                         IF id = document.id THEN document ELSE store[id]],
          raised |-> FALSE, exc |-> "none"]

\* find_documents with the filter {'_id': {'$in': indices}}: the documents
\* whose _id equals one of the listed integers.  A string _id equals none.
find_documents_in(store, indices) ==
    {id \in DOMAIN store :
        id.kind = "int" /\ \E k \in 1..Len(indices) : indices[k] = id.n}

\* find_documents with the filter {'_id': document_name}.
find_documents_id(store, document_name) == {id \in DOMAIN store : id = document_name}

\* delete_documents with the filter {'_id': document_name}: the collection
\* without that document, and deleted_count.
delete_documents(store, document_name) ==
    [store |-> [id \in DOMAIN store \ {document_name} |-> store[id]],
     deleted_count |-> Cardinality(find_documents_id(store, document_name))]

\* The orders in which a cursor may hand out the documents of `ids`: the
\* collaborator promises none.
CursorOrders(store, ids) ==
    {[k \in 1..Cardinality(ids) |-> store[f[k]]] :
        f \in {g \in [1..Cardinality(ids) -> ids] :
                  \A a, b \in 1..Cardinality(ids) : a # b => g[a] # g[b]}}

---------------------------------------------------------------------------
(* VDBService.rerank_documents *)

\* Place of element i of `scores` in sorted(..., reverse=True): Python's
\* sort is stable, and with reverse=True elements of equal key keep their
\* original order.
SortedPlace(scores, i) ==
    Cardinality({j \in 1..Len(scores) : scores[j] > scores[i]})
    + Cardinality({j \in 1..i : scores[j] = scores[i]})

\* rerank_documents that sorts without reverse=True: ascending scores.
rerank_documents_Ascending(documents, scores, top_k) ==
    LET n == Len(documents)
        place(i) == Cardinality({j \in 1..Len(scores) : scores[j] < scores[i]})
                    + Cardinality({j \in 1..i : scores[j] = scores[i]})
        scored_docs == [k \in 1..n |-> documents[CHOOSE i \in 1..n : place(i) = k]]
    IN  SubSeq(scored_docs, 1, Min(top_k, n))

\* The documents sorted by descending score, cut to the first top_k.
rerank_documents(documents, scores, top_k) ==
    LET n == Len(documents)
        scored_docs == [k \in 1..n |->
                           documents[CHOOSE i \in 1..n : SortedPlace(scores, i) = k]]
    IN  SubSeq(scored_docs, 1, Min(top_k, n))

---------------------------------------------------------------------------
(* VDBService *)

\* The record of a call: which operation, its arguments (the document name,
\* the document or query text, the width of the matrix), whether it raised
\* (and where, and which exception), and for get_data what the search, the
\* lookup and the reranker gave and what was returned.
Call(op, id, text) ==
    [op |-> op, id |-> id, text |-> text, dim |-> 0, raised |-> FALSE,
     stage |-> "done", exc |-> "none", top_n |-> 0, top_k |-> 0, indices |-> <<>>,
     documents |-> <<>>, scores |-> <<>>, result |-> <<>>]

Raised(call, stage, exc) == [call EXCEPT !.raised = TRUE, !.stage = stage, !.exc = exc]

\* ingest_data: summarize, embed the summary, insert the record, append the
\* embedding to both indexes and write both files.  Every exception is
\* logged and raised again as it is; nothing done before it is undone.
ingest_data(store, ing, fs, document_name, document_text, fault) ==
    LET call      == Call("ingest_data", document_name, document_text)
        same      == [mongo |-> store, ingester |-> ing, files |-> fs]
        processed == process_document(document_text)
        document  == [id        |-> document_name,
                      content   |-> document_text,
                      summary   |-> processed.summary,
                      embedding |-> processed.embedding]
        inserted  == insert_document(store, document, fault)
        added     == add_embeddings(ing, fs,
                         [dim |-> processed.embedding.dim,
                          rows |-> <<processed.embedding.v>>],
                         document_name, fault)
    IN  IF fault = "summarize"
        THEN same @@ [call |-> Raised(call, "summarize", "RuntimeError")]
        ELSE IF fault = "embed"
        THEN same @@ [call |-> Raised(call, "embed", "RuntimeError")]
        ELSE IF inserted.raised
        THEN same @@ [call |-> Raised(call, "insert", inserted.exc)]
        ELSE IF added.raised
        THEN [mongo |-> inserted.store, ingester |-> added.ingester, files |-> added.files,
              call |-> Raised(call, "index", added.exc)]
        ELSE [mongo |-> inserted.store, ingester |-> added.ingester, files |-> added.files,
              call |-> call]

\* get_vector_index_for_document: the 'vector_index' field of the document
\* named document_name, None ({}) when there is no such document or the
\* document has no such field.
get_vector_index_for_document(store, document_name) ==
    LET document == find_documents_id(store, document_name)
    IN  IF document # {}
        THEN LET doc == store[CHOOSE id \in document : TRUE]
             IN  IF "vector_index" \in DOMAIN doc THEN {doc.vector_index} ELSE {}
        ELSE {}

\* VectorDBDeletor.delete_embeddings: logs a warning and does nothing.
delete_embeddings(del, indices) == del

\* delete_data that also drops the last vector of the deletor's indexes.
delete_data_DropsVector(store, del, document_name) ==
    LET deleted == delete_documents(store, document_name)
    IN  [mongo   |-> deleted.store,
         deletor |-> [l2_index   |-> SubSeq(del.l2_index, 1, Len(del.l2_index) - 1),
                      hnsw_index |-> SubSeq(del.hnsw_index, 1, Len(del.hnsw_index) - 1)],
         call    |-> [Call("delete_data", document_name, 0) EXCEPT
                         !.stage = IF deleted.deleted_count > 0 THEN "deleted" ELSE "not_found"]]

\* delete_data that raises NotFoundError when no record was deleted.
delete_data_NotFoundError(store, del, document_name) ==
    LET deleted == delete_documents(store, document_name)
    IN  [mongo   |-> deleted.store,
         deletor |-> del,
         call    |-> IF deleted.deleted_count > 0
                     THEN [Call("delete_data", document_name, 0) EXCEPT !.stage = "deleted"]
                     ELSE Raised(Call("delete_data", document_name, 0),
                                 "not_found", "NotFoundError")]

\* delete_data: delete the record, then look the document's vector index up
\* and pass it to the deletor when there is one.  The call's indices are
\* what delete_embeddings was called with, <<>> when it was not called.
delete_data(store, del, document_name) ==
    LET deleted      == delete_documents(store, document_name)
        vector_index == get_vector_index_for_document(deleted.store, document_name)
    IN  [mongo   |-> deleted.store,
         deletor |-> IF vector_index # {} THEN delete_embeddings(del, vector_index) ELSE del,
         call    |-> [Call("delete_data", document_name, 0) EXCEPT
                         !.stage = IF deleted.deleted_count > 0 THEN "deleted" ELSE "not_found",
                         !.indices = IF vector_index # {}
                                     THEN <<CHOOSE i \in vector_index : TRUE>>
                                     ELSE <<>>]]

\* get_data that takes a position with no document for an error.
get_data_Strict(call, documents, scores, top_k) ==
    IF Len(documents) < Cardinality({k \in 1..Len(call.indices) : call.indices[k] >= 0})
    THEN Raised(call, "lookup", "KeyError")
    ELSE [call EXCEPT !.result = rerank_documents(documents, scores, top_k)]

\* get_data without the early return: the reranker is handed no pairs and
\* raises.
get_data_NoEarlyReturn(call, documents, scores, top_k) ==
    IF documents = <<>>
    THEN Raised(call, "rerank", "ValueError")
    ELSE [call EXCEPT !.result = rerank_documents(documents, scores, top_k)]

\* get_data after the search and the lookup: no documents, return [];
\* otherwise rerank them and return the first top_k.
get_data(call, documents, scores, top_k) ==
    IF documents = <<>>
    THEN [call EXCEPT !.result = <<>>]
    ELSE [call EXCEPT !.result = rerank_documents(documents, scores, top_k)]

---------------------------------------------------------------------------
(* Threads inside VDBService: ingest_data and get_data statement by
   statement *)

\* The threads that call ingest_data in the model.
Writers == {"w1", "w2"}

\* The document texts the threads ingest in the model.
ThreadTexts == {1}

\* The statements of ingest_data that call out, in the order of the code:
\* process_document's summarize_text and generate_embedding, insert_document,
\* then add_embeddings' l2_index.add, hnsw_index.add, save_l2_index and
\* save_hnsw_index.
Statements ==
    <<"summarize", "embed", "insert", "l2_add", "hnsw_add", "save_l2", "save_hnsw">>

\* The statements in another order: the index append and the file writes
\* before the insert.
StageAfter_AppendFirst(stage) ==
    CASE stage = "embed"     -> "l2_add"
      [] stage = "save_hnsw" -> "insert"
      [] stage = "insert"    -> "returned"
      [] OTHER -> LET i == CHOOSE k \in 1..Len(Statements) : Statements[k] = stage
                  IN  Statements[i + 1]

\* Where control is after statement `stage` returned: at the statement that
\* follows it in the code, or back in the caller after the last one.
StageAfter(stage) ==
    LET i == CHOOSE k \in 1..Len(Statements) : Statements[k] = stage
    IN  IF i < Len(Statements) THEN Statements[i + 1] ELSE "returned"

NoVector == [dim |-> 0, v |-> 0]

\* A thread in no call.  pc is the statement a thread is about to execute
\* ("returned" and "raised" after the call ended, "stopped" when the process
\* stopped under it), stages the statements it has executed in this call.
IdleWriter ==
    [pc |-> "idle", name |-> NoId, text |-> 0, summary |-> 0,
     embedding |-> NoVector, stages |-> <<>>, exc |-> "none"]

\* overlap: the names whose ingest_data was in a thread at some moment of
\* this get_data.  seen_index and seen_mongo: the names of the documents
\* whose vector was in the index when this call searched it, and whose
\* record was in the collection when this call looked the positions up.
IdleReader ==
    [pc |-> "idle", query |-> 0, top_n |-> 0, indices |-> <<>>, seen_index |-> {},
     seen_mongo |-> {}, overlap |-> {}, result |-> <<>>]

InCall(thread) == thread.pc \notin {"idle", "returned", "raised", "stopped"}

\* The statement `stage` of thread w returned.
Returned(w, stage) ==
    [writers[w] EXCEPT !.pc = StageAfter(stage), !.stages = Append(@, stage)]

\* The statement `stage` of thread w raised exc: the except clause of
\* ingest_data logs and raises again, and the call is over.
RaisedAt(w, stage, exc) ==
    [writers[w] EXCEPT !.pc = "raised", !.stages = Append(@, stage), !.exc = exc]

---------------------------------------------------------------------------
(* The /generate handler (api/routes.py and vllm_server.py) *)

\* The client connections of the model, each with one request at a time.
Connections == {"c1", "c2"}

\* Most outputs the engine produces for one request in the model.
MaxOutputs == 2

\* Most requests the server receives in the model.
MaxRequests == 3

\* A connection with no request.  pc is where the handler of the request is:
\* "collecting" in the loop of the non-streaming case, "streaming" after it
\* returned the StreamingResponse, "done" when the response has ended.
\* outputs is how many outputs the engine will produce for the request,
\* produced how many it has produced, final the last one the handler kept;
\* disconnected says that the client has gone, early that it went before
\* the engine had produced its last output.
NoRequest ==
    [pc |-> "none", stream |-> FALSE, request_id |-> 0, outputs |-> 0, produced |-> 0,
     final |-> 0, disconnected |-> FALSE, early |-> FALSE, status |-> 0]

---------------------------------------------------------------------------
(* ModelsManager.__new__ *)

\* The threads that construct ModelsManager in the model.
Threads == {"t1", "t2", "t3"}

\* None, and the objects super().__new__ creates: 1, 2, ...
None == 0

\* Most objects created in the model.
MaxObjects == 2

\* `if not cls._instance:` before the lock is taken.
FirstCheck(instance) == instance = None

\* __new__ without the second test: whoever gets the lock creates.
SecondCheck_Skipped(instance) == TRUE

\* `if not cls._instance:` under the lock.
SecondCheck(instance) == instance = None

---------------------------------------------------------------------------
(* VLLMEngineManager (api/vllm_engine_manager.py) *)

\* Most engines constructed in the model; the engines are 1, 2, ...
MaxEngines == 2

\* A call on the manager and how it ended: outcome is "returned" or the
\* exception raised, value what was returned.
EngineCall(op, outcome, value) == [op |-> op, outcome |-> outcome, value |-> value]

\* initialize_engine that constructs an engine on every call.
initialize_engine_Always(m, ok) ==
    IF ok
    THEN [m EXCEPT !.engine = m.constructed + 1,
                   !.constructed = @ + 1,
                   !.call = EngineCall("initialize_engine", "returned", None)]
    ELSE [m EXCEPT !.call = EngineCall("initialize_engine", "RuntimeError", None)]

\* initialize_engine(): with no engine held, AsyncLLMEngine.from_engine_args
\* builds one (ok) or raises, and then RuntimeError("Failed to initialize the
\* engine") leaves the call with _engine still None; with an engine held
\* the call does nothing.
initialize_engine(m, ok) ==
    IF m.engine = None
    THEN IF ok
         THEN [m EXCEPT !.engine = m.constructed + 1,
                        !.constructed = @ + 1,
                        !.call = EngineCall("initialize_engine", "returned", None)]
         ELSE [m EXCEPT !.call = EngineCall("initialize_engine", "RuntimeError", None)]
    ELSE [m EXCEPT !.call = EngineCall("initialize_engine", "returned", None)]

\* get_engine(): the engine held, or RuntimeError("Engine is not
\* initialized.") when none is; _engine is not assigned.
get_engine(m) ==
    IF m.engine = None
    THEN EngineCall("get_engine", "RuntimeError", None)
    ELSE EngineCall("get_engine", "returned", m.engine)

\* shutdown_engine(): `finally: cls._engine = None` when an engine is held,
\* a log line when none is.
shutdown_engine(m) ==
    [m EXCEPT !.engine = None,
              !.call = EngineCall("shutdown_engine", "returned", None)]

---------------------------------------------------------------------------
(* POST /v1/reranker (models_engine/api/routes.py) *)

\* c.TOP_K with no TOP_K in the configuration.
TOP_K == 5

\* Most documents in one request of the model.
MaxDocuments == 6

\* The document strings of the model, as numbers in the order of the
\* strings, and the scores the CrossEncoder gives.
RerankerDocuments == {1, 2}

RerankerScores == {1, 2}

\* The order of sorted(zip(scores, documents), reverse=True): the pair
\* (score, document) at i comes before the one at j when it is the greater
\* tuple; equal pairs keep their order.
PairBefore(scores, documents, i, j) ==
    \/ scores[i] > scores[j]
    \/ scores[i] = scores[j] /\ documents[i] > documents[j]
    \/ scores[i] = scores[j] /\ documents[i] = documents[j] /\ i < j

\* The same sort without reverse=True.
sorted_positions_Ascending(scores, documents) ==
    LET n == Len(documents)
        place(i) == 1 + Cardinality({j \in 1..n : PairBefore(scores, documents, i, j)})
    IN  [p \in 1..n |-> CHOOSE i \in 1..n : place(i) = p]

\* sorted(zip(scores, documents), reverse=True), as the positions the pairs
\* had in the request.
sorted_positions(scores, documents) ==
    LET n == Len(documents)
        place(i) == 1 + Cardinality({j \in 1..n : PairBefore(scores, documents, j, i)})
    IN  [p \in 1..n |-> CHOOSE i \in 1..n : place(i) = p]

\* sorted_docs = [doc for _, doc in sorted(zip(scores, documents), reverse=True)]
sorted_docs(scores, documents) ==
    [p \in 1..Len(documents) |-> documents[sorted_positions(scores, documents)[p]]]

\* A request that has arrived, with the scores the model will give its
\* documents, and no response yet.  reranked_from holds, for each document
\* of the response, its position in the request: the response does not
\* carry it, the formulas use it to say which score a document had.
RerankerRequest(documents, scores) ==
    [documents |-> documents, scores |-> scores, status |-> 0,
     reranked_documents |-> <<>>, reranked_from |-> <<>>]

\* The handler of /v1/reranker: the model's scores for the pairs (query,
\* doc), the documents sorted by them, the first TOP_K of these
\* (sorted_docs[:c.TOP_K]); any exception (predict_raises) becomes
\* HTTPException(500).
v1_reranker(documents, scores, predict_raises) ==
    IF predict_raises
    THEN [RerankerRequest(documents, scores) EXCEPT !.status = 500]
    ELSE [RerankerRequest(documents, scores) EXCEPT
             !.status = 200,
             !.reranked_documents =
                 SubSeq(sorted_docs(scores, documents), 1, Min(Len(documents), TOP_K)),
             !.reranked_from =
                 SubSeq(sorted_positions(scores, documents), 1, Min(Len(documents), TOP_K))]

---------------------------------------------------------------------------
(* The launcher of the vLLM server (vllm_engine/vllm_server.py) *)

\* command = ["vllm", "serve", model_path, ...]: the options that are
\* always there stand as one word each, with the configured value.
base_command ==
    <<"vllm", "serve", "model_path", "--tokenizer model_path", "--host host",
      "--port port", "--uvicorn-log-level level", "--gpu-memory-utilization u",
      "--max-model-len n", "--device device", "--load-format format",
      "--tensor-parallel-size n", "--max-num-batched-tokens n", "--dtype dtype",
      "--swap-space n">>

\* The command with the optional flags of the configuration.
build_command(trust_remote_code, tokenizer_mode) ==
    base_command
        \o (IF trust_remote_code THEN <<"--trust-remote-code">> ELSE <<>>)
        \o (IF tokenizer_mode # "" THEN <<"--tokenizer-mode", tokenizer_mode>> ELSE <<>>)

\* What subprocess.run(command, check=True) does in the model: the server
\* runs and exits with 0, it exits with another status (CalledProcessError),
\* or the program vllm is not found (FileNotFoundError).
RunOutcomes == {"exit0", "CalledProcessError", "FileNotFoundError"}

\* The try statement with an except clause that logs and does not raise.
run_command_LogOnly(outcome) ==
    IF outcome = "FileNotFoundError" THEN outcome ELSE "none"

\* try: subprocess.run(command, check=True)
\* except subprocess.CalledProcessError as e: raise RuntimeError(...) from e
\* The value is what the launcher raises.
run_command(outcome) ==
    CASE outcome = "exit0" -> "none"
      [] outcome = "CalledProcessError" -> "RuntimeError: Failed to start the vLLM server."
      [] OTHER -> outcome

\* The launcher before it has built its command.
NotLaunched == [pc |-> "start", command |-> <<>>, runs |-> <<>>, raised |-> "none"]

---------------------------------------------------------------------------
(* MongoDBManager.__init__ (utils/mongodb_manager.py) *)

\* The host names of the model, NoHost for None, and the most hosts in the
\* configured list.
Hosts == {"h1", "h2"}

NoHost == "None"

MaxHosts == 2

\* What an attempt on a host does: the ping succeeds; MongoClient(...) is
\* built and the ping raises (ConnectionFailure, ServerSelectionTimeoutError
\* or anything else); MongoClient(...) itself raises.
Answers == {"ok", "ping_raises", "client_raises"}

\* for host in hosts: the attempts from the k-th host on, with self.client
\* as the attempts before left it.  self.client is assigned when
\* MongoClient(...) returns, before the ping; an exception of either is
\* logged and the loop goes on; a ping that succeeds sets connected_host and
\* breaks.
RECURSIVE connect(_, _, _, _)
connect(hosts, answers, k, client) ==
    IF k > Len(hosts)
    THEN [client |-> client, connected_host |-> NoHost, tried |-> hosts]
    ELSE CASE answers[k] = "ok" ->
                [client |-> hosts[k], connected_host |-> hosts[k],
                 tried |-> SubSeq(hosts, 1, k)]
           [] answers[k] = "ping_raises" -> connect(hosts, answers, k + 1, hosts[k])
           [] OTHER -> connect(hosts, answers, k + 1, client)

\* MongoDBManager(): the loop, then `if self.client is None: raise
\* ConnectionError(...)`, then self.db = self.client[db_name].
MongoDBManager(hosts, answers) ==
    LET c == connect(hosts, answers, 1, NoHost)
    IN  [hosts |-> hosts, answers |-> answers, tried |-> c.tried,
         client |-> c.client, connected_host |-> c.connected_host,
         pc |-> IF c.client = NoHost THEN "raised" ELSE "constructed",
         raised |-> IF c.client = NoHost THEN "ConnectionError" ELSE "none"]

\* No MongoDBManager() yet.
NoManager ==
    [hosts |-> <<>>, answers |-> <<>>, tried |-> <<>>, client |-> NoHost,
     connected_host |-> NoHost, pc |-> "none", raised |-> "none"]

---------------------------------------------------------------------------
(* The state machine *)

\* A new deployment after VDBService(): no index file, an empty collection,
\* three pairs of empty in-memory indexes; no engine, no manager, no thread
\* in any call.
Started ==
    /\ mongo = NoDocs
    /\ files = [l2 |-> NoFile, hnsw |-> NoFile]
    /\ ingester = LoadBoth(files)
    /\ retriever = LoadBoth(files)
    /\ deletor = LoadBoth(files)
    /\ last = Call("init", NoId, 0)
    /\ onlyIngests = TRUE
    /\ deletedNames = {}
    /\ writers = [w \in Writers |-> IdleWriter]
    /\ reader = IdleReader
    /\ completed = {}
    /\ requests = [c \in Connections |-> NoRequest]
    /\ engine = [next_id |-> 1, generated |-> {}, aborted |-> {}]
    /\ callers = [t \in Threads |-> [pc |-> "outside", got |-> None]]
    /\ manager = [instance |-> None, lock |-> "free", created |-> 0,
                  initialize_runs |-> 0, loaded |-> {}]
    /\ engine_manager = [engine |-> None, constructed |-> 0,
                         call |-> EngineCall("none", "returned", None)]
    /\ launcher = NotLaunched
    /\ mongodb_manager = NoManager

\* The state after construction, no request made on the reranker.
Init == Started /\ reranker = RerankerRequest(<<>>, <<>>)

\* VDBService() again (a restart of the service): retriever, ingester and
\* deletor are built anew, each loading both indexes from the files.
Construct ==
    /\ retriever' = LoadBoth(files)
    /\ ingester' = LoadBoth(files)
    /\ deletor' = LoadBoth(files)
    /\ last' = Call("init", NoId, 0)
    /\ UNCHANGED <<mongo, files, onlyIngests, deletedNames, not_vdb_vars>>

\* VDBService.ingest_data(document_name, document_text), with the
\* collaborators failing as `faults` allows.
IngestDataWith(faults) ==
    \E document_name \in DocIds, document_text \in Texts, fault \in faults :
        LET r == ingest_data(mongo, ingester, files, document_name, document_text, fault)
        IN  /\ Len(ingester.l2_index) < MaxIndex
            /\ Len(ingester.hnsw_index) < MaxIndex
            /\ mongo' = r.mongo
            /\ ingester' = r.ingester
            /\ files' = r.files
            /\ last' = r.call
            /\ onlyIngests' = (onlyIngests /\ ~r.call.raised)
            /\ deletedNames' = IF r.call.stage \in {"index", "done"}
                               THEN deletedNames \ {document_name}
                               ELSE deletedNames
            /\ UNCHANGED <<retriever, deletor, not_vdb_vars>>

\* The matrices a caller passes to add_embeddings in the model: 1..MaxBatch
\* rows, each the embedding of one summary, of length D or D + 1.
Batches ==
    {[dim |-> d, rows |-> rows] :
        d \in {D, D + 1},
        rows \in UNION {[1..n -> {generate_embedding(summarize_text(1)).v}] :
                           n \in 1..MaxBatch}}

\* VectorDBIngester.add_embeddings(embeddings), called on the service's
\* ingester, with the file writes failing as `faults` allows.
AddEmbeddingsWith(faults) ==
    \E embeddings \in Batches, fault \in faults \cap {"none", "save_l2", "save_hnsw"} :
        LET r == add_embeddings(ingester, files, embeddings, NoId, fault)
        IN  /\ Len(ingester.l2_index) + Len(embeddings.rows) <= MaxIndex
            /\ Len(ingester.hnsw_index) + Len(embeddings.rows) <= MaxIndex
            /\ ingester' = r.ingester
            /\ files' = r.files
            /\ last' = [Call("add_embeddings", NoId, 0) EXCEPT
                           !.dim = embeddings.dim,
                           !.raised = r.raised, !.exc = r.exc,
                           !.stage = IF r.raised THEN "index" ELSE "done"]
            /\ onlyIngests' = FALSE
            /\ UNCHANGED <<mongo, retriever, deletor, deletedNames, not_vdb_vars>>

\* VDBService.delete_data(document_name).
DeleteData ==
    \E document_name \in DocIds :
        LET r == delete_data(mongo, deletor, document_name)
        IN  /\ mongo' = r.mongo
            /\ deletor' = r.deletor
            /\ last' = r.call
            /\ onlyIngests' = FALSE
            /\ deletedNames' = IF r.call.stage = "deleted"
                               THEN deletedNames \cup {document_name}
                               ELSE deletedNames
            /\ UNCHANGED <<files, ingester, retriever, not_vdb_vars>>

\* The query texts of the model.
Queries == {1}

\* VDBService.get_data(query): embed the query, search the retriever's exact
\* index for the TOP_N nearest positions, look the positions up as _id
\* values, rerank what was found.  TOP_N and TOP_K are read from the
\* configuration in the call (TOP_K <= TOP_N, as in the defaults 10 and 5);
\* the order of the cursor and the scores are the collaborators' answers.
GetData ==
    \E query \in Queries, top_n \in 1..MaxTop :
        \E top_k \in 1..top_n :
            LET query_embedding == generate_embedding(query)
                indices == search_embedding(retriever.l2_index, query_embedding, top_n)
                found   == find_documents_in(mongo, indices)
            IN  \E documents \in CursorOrders(mongo, found),
                   scores \in [1..Cardinality(found) -> Scores] :
                    /\ last' = get_data([Call("get_data", NoId, query) EXCEPT
                                            !.top_n = top_n, !.top_k = top_k,
                                            !.indices = indices,
                                            !.documents = documents,
                                            !.scores = scores],
                                        documents, scores, top_k)
                    /\ UNCHANGED <<mongo, files, ingester, retriever, deletor,
                                   onlyIngests, deletedNames, not_vdb_vars>>

\* The service with every collaborator (summarizer, embedding model, MongoDB
\* server, file system, reranker) answering: a call raises only for what
\* the caller passed (a document name already stored, a matrix of the wrong
\* width).
IngestData == IngestDataWith({"none"})

AddEmbeddings == AddEmbeddingsWith({"none"})

Next == Construct \/ IngestData \/ AddEmbeddings \/ DeleteData \/ GetData

Spec == Init /\ [][Next]_vars

\* The mutating calls with collaborators that may fail: the summarizer, the
\* embedding model and the MongoDB insert may raise, and so may each of the
\* two index file writes.
IngestDataFaulty == IngestDataWith(Faults)

AddEmbeddingsFaulty == AddEmbeddingsWith(Faults)

FaultNext == Construct \/ IngestDataFaulty \/ AddEmbeddingsFaulty \/ DeleteData

FaultSpec == Init /\ [][FaultNext]_vars

\* One lifetime of the service: any sequence of add_embeddings, ingest_data
\* and delete_data calls on the service constructed at Init, collaborators
\* failing or not, and no second construction.
LifetimeNext == IngestDataFaulty \/ AddEmbeddingsFaulty \/ DeleteData

LifetimeSpec == Init /\ [][LifetimeNext]_vars

\* VectorDBDeletor.delete_embeddings(indices), called on the service's
\* deletor with one position: the warning is logged and the call returns.
DeleteEmbeddings ==
    \E position \in 0..(MaxIndex - 1) :
        /\ deletor' = delete_embeddings(deletor, <<position>>)
        /\ last' = [Call("delete_embeddings", NoId, 0) EXCEPT !.indices = <<position>>]
        /\ onlyIngests' = FALSE
        /\ UNCHANGED <<mongo, files, ingester, retriever, deletedNames, not_vdb_vars>>

\* The calls of Next and the direct call of the deletor.
DeletorNext == Next \/ DeleteEmbeddings

DeletorSpec == Init /\ [][DeletorNext]_vars

---------------------------------------------------------------------------
(* The service called from threads.  Nothing in VDBService, the ingester or
   MongoDBManager takes a lock, so the statements of calls made from
   different threads interleave. *)

\* What a statement of a thread leaves alone.
ThreadFrame ==
    UNCHANGED <<retriever, deletor, last, deletedNames, generate_vars, models_vars,
                services_vars>>

\* A thread calls ingest_data(document_name, document_text).
BeginIngest ==
    \E w \in Writers, document_name \in DocIds, document_text \in ThreadTexts :
        /\ ~InCall(writers[w])
        /\ Len(ingester.l2_index) + Cardinality({v \in Writers : InCall(writers[v])})
              < MaxIndex
        /\ writers' = [writers EXCEPT ![w] =
                          [IdleWriter EXCEPT !.pc = Statements[1],
                                             !.name = document_name,
                                             !.text = document_text]]
        /\ reader' = IF InCall(reader)
                      THEN [reader EXCEPT !.overlap = @ \cup {document_name}]
                      ELSE reader
        /\ UNCHANGED <<mongo, files, ingester, onlyIngests, completed>>
        /\ ThreadFrame

\* summary = self.summarize_text(document_text)
Summarize(w, fault) ==
    /\ writers[w].pc = "summarize"
    /\ writers' = [writers EXCEPT ![w] =
                      IF fault = "summarize"
                      THEN RaisedAt(w, "summarize", "RuntimeError")
                      ELSE [Returned(w, "summarize") EXCEPT
                               !.summary = summarize_text(writers[w].text)]]
    /\ onlyIngests' = (onlyIngests /\ writers'[w].pc # "raised")
    /\ UNCHANGED <<mongo, files, ingester, reader, completed>>
    /\ ThreadFrame

\* embedding = self.generate_embedding(summary)
Embed(w, fault) ==
    /\ writers[w].pc = "embed"
    /\ writers' = [writers EXCEPT ![w] =
                      IF fault = "embed"
                      THEN RaisedAt(w, "embed", "RuntimeError")
                      ELSE [Returned(w, "embed") EXCEPT
                               !.embedding = generate_embedding(writers[w].summary)]]
    /\ onlyIngests' = (onlyIngests /\ writers'[w].pc # "raised")
    /\ UNCHANGED <<mongo, files, ingester, reader, completed>>
    /\ ThreadFrame

\* self.mongo_manager.insert_document(collection_name, document)
Insert(w, fault) ==
    LET document == [id        |-> writers[w].name,
                     content   |-> writers[w].text,
                     summary   |-> writers[w].summary,
                     embedding |-> writers[w].embedding]
        inserted == insert_document(mongo, document, fault)
    IN  /\ writers[w].pc = "insert"
        /\ mongo' = inserted.store
        /\ writers' = [writers EXCEPT ![w] =
                          IF inserted.raised
                          THEN RaisedAt(w, "insert", inserted.exc)
                          ELSE Returned(w, "insert")]
        /\ onlyIngests' = (onlyIngests /\ ~inserted.raised)
        /\ UNCHANGED <<files, ingester, reader, completed>>
        /\ ThreadFrame

\* The one-row matrix ingest_data passes to add_embeddings.
RowOf(w) == [dim |-> writers[w].embedding.dim, rows |-> <<writers[w].embedding.v>>]

\* self.l2_index.add(embeddings)
L2Add(w, fault) ==
    /\ writers[w].pc = "l2_add"
    /\ IF FaissAddOk(RowOf(w))
       THEN /\ ingester' = [ingester EXCEPT
                               !.l2_index = @ \o Rows(RowOf(w), writers[w].name)]
            /\ writers' = [writers EXCEPT ![w] = Returned(w, "l2_add")]
       ELSE /\ ingester' = ingester
            /\ writers' = [writers EXCEPT ![w] =
                              RaisedAt(w, "l2_add", "AssertionError")]
    /\ onlyIngests' = (onlyIngests /\ writers'[w].pc # "raised")
    /\ UNCHANGED <<mongo, files, reader, completed>>
    /\ ThreadFrame

\* self.hnsw_index.add(embeddings)
HnswAdd(w, fault) ==
    /\ writers[w].pc = "hnsw_add"
    /\ IF FaissAddOk(RowOf(w))
       THEN /\ ingester' = [ingester EXCEPT
                               !.hnsw_index = @ \o Rows(RowOf(w), writers[w].name)]
            /\ writers' = [writers EXCEPT ![w] = Returned(w, "hnsw_add")]
       ELSE /\ ingester' = ingester
            /\ writers' = [writers EXCEPT ![w] =
                              RaisedAt(w, "hnsw_add", "AssertionError")]
    /\ onlyIngests' = (onlyIngests /\ writers'[w].pc # "raised")
    /\ UNCHANGED <<mongo, files, reader, completed>>
    /\ ThreadFrame

\* self.save_l2_index(): the file gets the exact index as it is in memory now.
SaveL2(w, fault) ==
    /\ writers[w].pc = "save_l2"
    /\ IF fault = "save_l2"
       THEN /\ files' = files
            /\ writers' = [writers EXCEPT ![w] =
                              RaisedAt(w, "save_l2", "RuntimeError")]
       ELSE /\ files' = save_l2_index(files, ingester.l2_index)
            /\ writers' = [writers EXCEPT ![w] = Returned(w, "save_l2")]
    /\ onlyIngests' = (onlyIngests /\ writers'[w].pc # "raised")
    /\ UNCHANGED <<mongo, ingester, reader, completed>>
    /\ ThreadFrame

\* self.save_hnsw_index(), and the return of add_embeddings and ingest_data.
SaveHnsw(w, fault) ==
    /\ writers[w].pc = "save_hnsw"
    /\ IF fault = "save_hnsw"
       THEN /\ files' = files
            /\ writers' = [writers EXCEPT ![w] =
                              RaisedAt(w, "save_hnsw", "RuntimeError")]
            /\ completed' = completed
       ELSE /\ files' = save_hnsw_index(files, ingester.hnsw_index)
            /\ writers' = [writers EXCEPT ![w] = Returned(w, "save_hnsw")]
            /\ completed' = completed \cup {writers[w].name}
    /\ onlyIngests' = (onlyIngests /\ writers'[w].pc # "raised")
    /\ UNCHANGED <<mongo, ingester, reader>>
    /\ ThreadFrame

\* A thread in ingest_data executes its next statement; `faults` is what the
\* collaborators may be made to do.
WriterStep(faults) ==
    \E w \in Writers, fault \in faults :
        \/ Summarize(w, fault) \/ Embed(w, fault) \/ Insert(w, fault)
        \/ L2Add(w, fault) \/ HnswAdd(w, fault)
        \/ SaveL2(w, fault) \/ SaveHnsw(w, fault)

\* A thread calls get_data(query).
BeginGetData ==
    \E query \in Queries :
        /\ ~InCall(reader)
        /\ reader' = [IdleReader EXCEPT
                         !.pc = "search",
                         !.query = query,
                         !.overlap = {writers[w].name : w \in {v \in Writers : InCall(writers[v])}}]
        /\ UNCHANGED <<mongo, files, ingester, onlyIngests, writers, completed>>
        /\ ThreadFrame

\* generate_embedding(query) and self.retriever.search_embedding(query_embedding,
\* top_n): the search reads the retriever's exact index as it is now.
Search ==
    \E top_n \in 1..MaxTop :
        /\ reader.pc = "search"
        /\ reader' = [reader EXCEPT
                         !.pc = "lookup",
                         !.top_n = top_n,
                         !.indices = search_embedding(retriever.l2_index,
                                         generate_embedding(reader.query), top_n),
                         !.seen_index = {retriever.l2_index[i].of :
                                            i \in 1..Len(retriever.l2_index)}]
        /\ UNCHANGED <<mongo, files, ingester, onlyIngests, writers, completed>>
        /\ ThreadFrame

\* find_documents({'_id': {'$in': indices}}) reads the collection as it is
\* now; the reranking of what it found and the return read nothing shared.
Lookup ==
    \E top_k \in 1..reader.top_n :
        LET found == find_documents_in(mongo, reader.indices)
        IN  \E documents \in CursorOrders(mongo, found),
               scores \in [1..Cardinality(found) -> Scores] :
                /\ reader.pc = "lookup"
                /\ reader' = [get_data(reader, documents, scores, top_k) EXCEPT
                                 !.pc = "returned",
                                 !.seen_mongo = DOMAIN mongo]
                /\ UNCHANGED <<mongo, files, ingester, onlyIngests, writers, completed>>
                /\ ThreadFrame

\* The process stops, whatever its threads are doing, and the service is
\* started again: the calls in flight are gone, and the new service's
\* ingester, retriever and deletor load both indexes from the files.
Stop ==
    /\ writers' = [w \in Writers |->
                      IF InCall(writers[w])
                      THEN [writers[w] EXCEPT !.pc = "stopped"]
                      ELSE writers[w]]
    /\ reader' = IF InCall(reader) THEN [reader EXCEPT !.pc = "stopped"] ELSE reader
    /\ ingester' = LoadBoth(files)
    /\ retriever' = LoadBoth(files)
    /\ deletor' = LoadBoth(files)
    /\ last' = Call("init", NoId, 0)
    /\ UNCHANGED <<mongo, files, onlyIngests, deletedNames, completed,
                   generate_vars, models_vars, services_vars>>

\* Threads calling ingest_data with collaborators that may fail, and the
\* process stopping and starting again at any moment.
IngestStep == WriterStep(Faults)

ThreadNext == BeginIngest \/ IngestStep \/ Stop

ThreadSpec == Init /\ [][ThreadNext]_vars

\* Threads calling ingest_data with every collaborator answering, and the
\* process stopping and starting again at any moment.
StopNext == BeginIngest \/ WriterStep({"none"}) \/ Stop

StopSpec == Init /\ [][StopNext]_vars

\* VDBService() again while no call is in flight: this is when the
\* retriever loads what the ingests have written.
Restart ==
    /\ \A w \in Writers : ~InCall(writers[w])
    /\ ~InCall(reader)
    /\ Construct

\* Threads calling ingest_data and get_data at the same time, every
\* collaborator answering, and the service constructed again now and then.
IngestStepOk == WriterStep({"none"})

ConcurrentNext ==
    BeginIngest \/ IngestStepOk \/ BeginGetData \/ Search \/ Lookup \/ Restart

ConcurrentSpec == Init /\ [][ConcurrentNext]_vars

---------------------------------------------------------------------------
(* The /generate handler, with the engine initialized *)

GenerateFrame == UNCHANGED <<vdb_vars, thread_vars, models_vars, services_vars>>

\* POST /generate arrives on a connection: the handler draws a new
\* request_id, calls engine.generate(prompt, sampling_params, request_id) and
\* either returns StreamingResponse(stream_results()) or enters the loop of
\* the non-streaming case.
ReceiveGenerate ==
    \E c \in Connections, stream \in BOOLEAN, outputs \in 0..MaxOutputs :
        /\ requests[c].pc \in {"none", "done"}
        /\ engine.next_id <= MaxRequests
        /\ requests' = [requests EXCEPT ![c] =
                           [NoRequest EXCEPT
                               !.pc = IF stream THEN "streaming" ELSE "collecting",
                               !.stream = stream,
                               !.request_id = engine.next_id,
                               !.outputs = outputs]]
        /\ engine' = [engine EXCEPT !.next_id = @ + 1,
                                    !.generated = @ \cup {engine.next_id}]
        /\ GenerateFrame

\* The client of a request in flight goes away.
Disconnect ==
    \E c \in Connections :
        /\ requests[c].pc \in {"streaming", "collecting"}
        /\ ~requests[c].disconnected
        /\ requests' = [requests EXCEPT
                           ![c].disconnected = TRUE,
                           ![c].early = requests[c].produced < requests[c].outputs]
        /\ UNCHANGED engine
        /\ GenerateFrame

\* Non-streaming case, one turn of `async for request_output in
\* results_generator`: on a disconnected client the handler aborts the
\* request and answers 499, otherwise it keeps the output.
CollectOutput ==
    \E c \in Connections :
        /\ requests[c].pc = "collecting"
        /\ requests[c].produced < requests[c].outputs
        /\ IF requests[c].disconnected
           THEN /\ engine' = [engine EXCEPT !.aborted = @ \cup {requests[c].request_id}]
                /\ requests' = [requests EXCEPT ![c].produced = @ + 1,
                                                ![c].pc = "done",
                                                ![c].status = 499]
           ELSE /\ engine' = engine
                /\ requests' = [requests EXCEPT ![c].produced = @ + 1,
                                                ![c].final = requests[c].produced + 1]
        /\ GenerateFrame

\* Non-streaming case, after the loop: `assert final_output is not None`,
\* then the JSON response with the text of final_output.
ReturnFinal ==
    \E c \in Connections :
        /\ requests[c].pc = "collecting"
        /\ requests[c].produced = requests[c].outputs
        /\ requests' = [requests EXCEPT
                           ![c].pc = "done",
                           ![c].status = IF requests[c].final = 0 THEN 500 ELSE 200]
        /\ UNCHANGED engine
        /\ GenerateFrame

\* Streaming case, one turn of the loop of stream_results: the output is
\* encoded and yielded to the response.
StreamOutput ==
    \E c \in Connections :
        /\ requests[c].pc = "streaming"
        /\ requests[c].produced < requests[c].outputs
        /\ requests' = [requests EXCEPT ![c].produced = @ + 1,
                                        ![c].final = requests[c].produced + 1]
        /\ UNCHANGED engine
        /\ GenerateFrame

\* Streaming case, the end of the response: the generator is exhausted, or
\* the server drops the response of a client that has gone.  stream_results
\* has no except or finally clause and the response no background task:
\* nothing of the handler runs when the response ends.
StreamEnd ==
    \E c \in Connections :
        /\ requests[c].pc = "streaming"
        /\ requests[c].produced = requests[c].outputs \/ requests[c].disconnected
        /\ requests' = [requests EXCEPT ![c].pc = "done", ![c].status = 200]
        /\ UNCHANGED engine
        /\ GenerateFrame

GenerateNext ==
    \/ ReceiveGenerate \/ Disconnect
    \/ CollectOutput \/ ReturnFinal
    \/ StreamOutput \/ StreamEnd

GenerateSpec == Init /\ [][GenerateNext]_vars

---------------------------------------------------------------------------
(* ModelsManager() called from threads *)

ModelsFrame == UNCHANGED <<vdb_vars, thread_vars, generate_vars, services_vars>>

At(t, pc) == callers[t].pc = pc

Goto(t, pc) == [callers EXCEPT ![t].pc = pc]

\* A thread calls ModelsManager().
EnterNew ==
    \E t \in Threads :
        /\ callers[t].pc \in {"outside", "done", "raised"}
        /\ callers' = Goto(t, "check1")
        /\ UNCHANGED manager
        /\ ModelsFrame

\* if not cls._instance:
Check1 ==
    \E t \in Threads :
        /\ At(t, "check1")
        /\ callers' = Goto(t, IF FirstCheck(manager.instance) THEN "acquire" ELSE "return")
        /\ UNCHANGED manager
        /\ ModelsFrame

\* with cls._lock: the thread waits until the lock is free and takes it.
Acquire ==
    \E t \in Threads :
        /\ At(t, "acquire")
        /\ manager.lock = "free"
        /\ manager' = [manager EXCEPT !.lock = t]
        /\ callers' = Goto(t, "new_check")
        /\ ModelsFrame

\* if not cls._instance: under the lock; when there is an instance the with
\* block ends and the lock is released.
Check2 ==
    \E t \in Threads :
        /\ At(t, "new_check")
        /\ IF SecondCheck(manager.instance)
           THEN /\ callers' = Goto(t, "new")
                /\ manager' = manager
           ELSE /\ callers' = Goto(t, "return")
                /\ manager' = [manager EXCEPT !.lock = "free"]
        /\ ModelsFrame

\* cls._instance = super().__new__(cls, *args, **kwargs)
New ==
    \E t \in Threads :
        /\ At(t, "new")
        /\ manager.created < MaxObjects
        /\ manager' = [manager EXCEPT !.created = @ + 1,
                                      !.instance = manager.created + 1]
        /\ callers' = Goto(t, "initialize")
        /\ ModelsFrame

\* cls._instance._initialize() is entered: the models start loading.
InitializeBegin ==
    \E t \in Threads :
        /\ At(t, "initialize")
        /\ manager' = [manager EXCEPT !.initialize_runs = @ + 1]
        /\ callers' = Goto(t, "loading")
        /\ ModelsFrame

\* _initialize ends: the models are loaded, or a load failed and
\* RuntimeError leaves __new__; either way the with block releases the lock.
InitializeEnd ==
    \E t \in Threads, ok \in BOOLEAN :
        /\ At(t, "loading")
        /\ manager' = [manager EXCEPT
                          !.lock = "free",
                          !.loaded = IF ok THEN @ \cup {manager.instance} ELSE @]
        /\ callers' = Goto(t, IF ok THEN "return" ELSE "raised")
        /\ ModelsFrame

\* return cls._instance
ReturnInstance ==
    \E t \in Threads :
        /\ At(t, "return")
        /\ callers' = [callers EXCEPT ![t] = [pc |-> "done", got |-> manager.instance]]
        /\ UNCHANGED manager
        /\ ModelsFrame

ModelsNext ==
    \/ EnterNew \/ Check1 \/ Acquire \/ Check2
    \/ New \/ InitializeBegin \/ InitializeEnd \/ ReturnInstance

ModelsSpec == Init /\ [][ModelsNext]_vars

---------------------------------------------------------------------------
(* The vLLM API server: the engine manager and /generate of api/routes.py *)

EngineFrame ==
    UNCHANGED <<vdb_vars, thread_vars, generate_vars, models_vars,
                reranker, launcher, mongodb_manager>>

\* VLLMEngineManager.initialize_engine(), as lifespan calls it at startup.
InitializeEngine ==
    \E ok \in BOOLEAN :
        /\ engine_manager.constructed < MaxEngines
        /\ engine_manager' = initialize_engine(engine_manager, ok)
        /\ EngineFrame

\* VLLMEngineManager.shutdown_engine(), as lifespan calls it at shutdown.
ShutdownEngine ==
    /\ engine_manager' = shutdown_engine(engine_manager)
    /\ EngineFrame

\* VLLMEngineManager.get_engine() called on its own.
GetEngine ==
    /\ engine_manager' = [engine_manager EXCEPT !.call = get_engine(engine_manager)]
    /\ EngineFrame

\* POST /generate of api/routes.py: get_engine() first, and the response
\* 500 "LLM Engine is not initialized." when it raises RuntimeError;
\* otherwise the handler goes on with the engine it got.
Generate ==
    IF get_engine(engine_manager).outcome = "RuntimeError"
    THEN \E c \in Connections :
            /\ requests[c].pc \in {"none", "done"}
            /\ requests' = [requests EXCEPT ![c] =
                               [NoRequest EXCEPT !.pc = "done", !.status = 500]]
            /\ UNCHANGED engine
            /\ GenerateFrame
    ELSE ReceiveGenerate

EngineNext ==
    \/ InitializeEngine \/ ShutdownEngine \/ GetEngine \/ Generate
    \/ Disconnect \/ CollectOutput \/ ReturnFinal
    \/ StreamOutput \/ StreamEnd

EngineSpec == Init /\ [][EngineNext]_vars

---------------------------------------------------------------------------
(* POST /v1/reranker *)

\* A request has arrived: any documents, and any scores for them.
RerankerInit ==
    /\ Started
    /\ \E n \in 0..MaxDocuments :
           \E documents \in [1..n -> RerankerDocuments],
              scores \in [1..n -> RerankerScores] :
               reranker = RerankerRequest(documents, scores)

\* The handler answers the request.
Rerank ==
    \E predict_raises \in BOOLEAN :
        /\ reranker.status = 0
        /\ reranker' = v1_reranker(reranker.documents, reranker.scores, predict_raises)
        /\ UNCHANGED <<vdb_vars, thread_vars, generate_vars, models_vars,
                       engine_manager, launcher, mongodb_manager>>

RerankerSpec == RerankerInit /\ [][Rerank]_vars

---------------------------------------------------------------------------
(* Starting the servers: the vLLM launcher and MongoDBManager() *)

StartupFrame ==
    UNCHANGED <<vdb_vars, thread_vars, generate_vars, models_vars,
                engine_manager, reranker>>

\* python vllm_server.py: the configuration is read and the command built.
BuildCommand ==
    \E trust_remote_code \in BOOLEAN, tokenizer_mode \in {"", "auto"} :
        /\ launcher' = [NotLaunched EXCEPT
                           !.pc = "built",
                           !.command = build_command(trust_remote_code, tokenizer_mode)]
        /\ UNCHANGED mongodb_manager
        /\ StartupFrame

\* The try statement at the end of the module: subprocess.run is called
\* with the command and check=True, and the module ends or raises.
RunCommand ==
    \E outcome \in RunOutcomes :
        /\ launcher.pc = "built"
        /\ launcher' = [launcher EXCEPT
                           !.pc = IF run_command(outcome) = "none" THEN "ended" ELSE "raised",
                           !.runs = Append(@, [command |-> launcher.command,
                                               check |-> TRUE,
                                               outcome |-> outcome]),
                           !.raised = run_command(outcome)]
        /\ UNCHANGED mongodb_manager
        /\ StartupFrame

\* MongoDBManager() with a configured list of hosts, each answering in its
\* way.
ConstructMongoDBManager ==
    \E n \in 0..MaxHosts :
        \E hosts \in [1..n -> Hosts], answers \in [1..n -> Answers] :
            /\ mongodb_manager' = MongoDBManager(hosts, answers)
            /\ UNCHANGED launcher
            /\ StartupFrame

StartupNext == BuildCommand \/ RunCommand \/ ConstructMongoDBManager

StartupSpec == Init /\ [][StartupNext]_vars

---------------------------------------------------------------------------
(* Properties *)

\* The names tagged on the entries of an index.
Owners(index) == {index[i].of : i \in 1..Len(index)}

\* How many entries of an index were appended by the ingest of `id`.
Positions(index, id) == Cardinality({i \in 1..Len(index) : index[i].of = id})

\* The score the reranker gave a document of the last query.
ScoreOf(doc) ==
    last.scores[CHOOSE j \in 1..Len(last.documents) : last.documents[j] = doc]

\* The place, in what the search of the last query returned, of the position
\* that a document was looked up by.
PlaceOf(doc) ==
    CHOOSE k \in 1..Len(last.indices) : last.indices[k] = doc.id.n

\* C1: after any sequence of add_embeddings, ingest_data and delete_data
\* calls has completed, the exact index and the approximate index hold the
\* same number of vectors (in the ingester, which the calls append to, and
\* in the retriever and the deletor, which they leave alone).
C1_SameSize ==
    /\ Len(ingester.l2_index) = Len(ingester.hnsw_index)
    /\ Len(retriever.l2_index) = Len(retriever.hnsw_index)
    /\ Len(deletor.l2_index) = Len(deletor.hnsw_index)

\* A state after a direct add_embeddings call, an ingest and a delete.
C1_Witness ==
    /\ last.op = "delete_data"
    /\ last.stage = "deleted"
    /\ Len(ingester.l2_index) = 2
    /\ NoId \in Owners(ingester.l2_index)
    /\ Owners(ingester.l2_index) # {NoId}

\* C2: after any sequence of successful ingest_data calls, the size of the
\* exact index, the size of the approximate index and the number of
\* documents ingested under distinct names are equal.
C2_SizesEqualDocuments ==
    onlyIngests =>
        /\ Len(ingester.l2_index) = Cardinality(DOMAIN mongo)
        /\ Len(ingester.hnsw_index) = Cardinality(DOMAIN mongo)

\* Two successful ingests and nothing else.
C2_Witness ==
    /\ onlyIngests
    /\ last.op = "ingest_data"
    /\ Len(ingester.l2_index) = 2
    /\ Cardinality(DOMAIN mongo) = 2

\* C3: after successful ingests and no delete, every position of the index
\* resolves, by the lookup get_data makes on the positions the search
\* returns, to exactly one document record, the one whose embedding was
\* appended at that position.
C3_PositionsResolve ==
    onlyIngests =>
        \A p \in 0..(Len(ingester.l2_index) - 1) :
            find_documents_in(mongo, <<p>>) = {ingester.l2_index[p + 1].of}

\* C4: a query made after a document was ingested and deleted does not
\* raise and returns no record of a deleted name, also when the deleted
\* document's position is among the positions the search returned.
C4_DanglingTolerated ==
    last.op = "get_data" =>
        /\ ~last.raised
        /\ \A k \in 1..Len(last.result) : last.result[k].id \notin deletedNames

\* A query whose search returned the position of a deleted document's
\* vector next to the position of a document that is returned.
C4_Witness ==
    /\ last.op = "get_data"
    /\ \E k \in 1..Len(last.indices) :
          /\ last.indices[k] >= 0
          /\ retriever.l2_index[last.indices[k] + 1].of \in deletedNames
    /\ last.result # <<>>

\* C5: a query with TOP_K <= TOP_N returns at most TOP_K records, in
\* non-increasing order of reranker score, each the document looked up by
\* one of the TOP_N positions the search returned.
C5_TopKOfTopN ==
    (last.op = "get_data" /\ last.top_k <= last.top_n) =>
        /\ Len(last.indices) = last.top_n
        /\ Len(last.result) <= last.top_k
        /\ \A k \in 1..(Len(last.result) - 1) :
              ScoreOf(last.result[k]) >= ScoreOf(last.result[k + 1])
        /\ \A k \in 1..Len(last.result) :
              /\ \E j \in 1..Len(last.documents) : last.documents[j] = last.result[k]
              /\ last.result[k].id \in find_documents_in(mongo, last.indices)
              /\ mongo[last.result[k].id] = last.result[k]

\* A query that found two documents with different scores and returned the
\* better one only.
C5_Witness ==
    /\ last.op = "get_data"
    /\ last.top_n = 2
    /\ last.top_k = 1
    /\ Len(last.documents) = 2
    /\ last.scores[1] # last.scores[2]
    /\ Len(last.result) = 1

\* C6: two returned documents of equal score come in the order in which the
\* search returned their positions.
C6_TiesKeepIndexOrder ==
    last.op = "get_data" =>
        \A a, b \in 1..Len(last.result) :
            (a < b /\ ScoreOf(last.result[a]) = ScoreOf(last.result[b]))
                => PlaceOf(last.result[a]) < PlaceOf(last.result[b])

\* C7: a query made while both indexes are empty and nothing was ingested
\* returns the empty list and does not raise, whatever TOP_N is.
C7_EmptyIndexQuery ==
    (/\ last.op = "get_data"
     /\ retriever.l2_index = <<>>
     /\ retriever.hnsw_index = <<>>
     /\ DOMAIN mongo = {})
        => (~last.raised /\ last.result = <<>>)

\* A query on the new deployment with the largest TOP_N.
C7_Witness ==
    /\ last.op = "get_data"
    /\ last.top_n = MaxTop
    /\ retriever.l2_index = <<>>
    /\ retriever.hnsw_index = <<>>
    /\ ingester.l2_index = <<>>
    /\ DOMAIN mongo = {}

\* C8: add_embeddings with vectors of a length other than D raises, and both
\* in-memory indexes and both index files are what they were before.
C8_WrongDimensionNoAppend ==
    [][(last'.op = "add_embeddings" /\ last'.dim # D)
          => (last'.raised /\ ingester' = ingester /\ files' = files)]_vars

\* A refused add_embeddings on indexes that held a vector.
C8_Witness ==
    /\ last.op = "add_embeddings"
    /\ last.dim = D + 1
    /\ last.raised
    /\ ingester.l2_index # <<>>
    /\ files.l2.exists

\* C9: an ingest whose insert succeeded and whose index append failed raises
\* PartialIngestError.
C9_PartialIngestError ==
    (last.op = "ingest_data" /\ last.raised /\ last.stage = "index")
        => last.exc = "PartialIngestError"

\* C10: after ingest_data was called again with the name and content of a
\* document whose record an earlier call inserted, there is one record of
\* that name and one position of it in each index.
C10_IngestIdempotent ==
    (/\ last.op = "ingest_data"
     /\ last.exc = "DuplicateKeyError"
     /\ mongo[last.id].content = last.text)
        => /\ Cardinality(find_documents_id(mongo, last.id)) = 1
           /\ Positions(ingester.l2_index, last.id) = 1
           /\ Positions(ingester.hnsw_index, last.id) = 1

\* The exact index file holds what the ingester's exact index holds in
\* memory, and the approximate index file what its approximate index holds.
WriteThrough ==
    /\ files.l2 = [exists |-> TRUE, data |-> ingester.l2_index]
    /\ files.hnsw = [exists |-> TRUE, data |-> ingester.hnsw_index]

HoldsVectorOf(index, name) ==
    \E i \in 1..Len(index) :
        /\ index[i].of = name
        /\ index[i].dim = mongo[name].embedding.dim
        /\ index[i].v = mongo[name].embedding.v

Indexes == <<ingester, retriever, deletor, files>>

C14_DeleteEmbeddingsRaises ==
    last.op = "delete_embeddings" =>
        (last.raised /\ last.exc = "UnsupportedOperationError")

\* C15: delete_data of a name that has no record returns without raising,
\* by the branch that logs the warning, and leaves the collection, the
\* in-memory indexes and both index files as they were.
C15_DeleteMissingIsNoOp ==
    [][(last'.op = "delete_data" /\ last'.id \notin DOMAIN mongo) =>
          /\ ~last'.raised
          /\ last' # last => last'.stage = "not_found"
          /\ mongo' = mongo
          /\ Indexes' = Indexes]_vars

\* A delete_data of a name without a record while other records and their
\* vectors exist.
C15_Witness ==
    /\ last.op = "delete_data"
    /\ last.stage = "not_found"
    /\ DOMAIN mongo # {}
    /\ ingester.l2_index # <<>>

\* The statements a call has executed are the first statements of the code,
\* in the code's order and each once; a call that returned executed all of
\* them, a call in flight is at the statement after the last one executed.
InOrder(thread) ==
    /\ Len(thread.stages) <= Len(Statements)
    /\ \A k \in 1..Len(thread.stages) : thread.stages[k] = Statements[k]
    /\ thread.pc = "returned" => thread.stages = Statements
    /\ thread.pc = "raised" => (thread.stages # <<>> /\ thread.exc # "none")
    /\ InCall(thread) => thread.pc = Statements[Len(thread.stages) + 1]

\* The insert of a call has succeeded: the call went on to the index append.
Inserted(thread) == Len(thread.stages) > 3 \/ thread.pc = "l2_add"

\* C16: every ingest_data call executes summarize, embed (of the summary),
\* insert, the two appends and the two file writes in that order, each at
\* most once; the record it inserts carries the embedding of the summary of
\* its text; a vector is in an index only if its document's insert
\* succeeded; and a call that raised executes nothing more.
C16_StagesInOrder ==
    /\ [](/\ \A w \in Writers :
              /\ InOrder(writers[w])
              /\ Inserted(writers[w]) =>
                    /\ writers[w].name \in DOMAIN mongo
                    /\ mongo[writers[w].name].summary = summarize_text(writers[w].text)
                    /\ mongo[writers[w].name].embedding =
                          generate_embedding(summarize_text(writers[w].text))
          /\ Owners(ingester.l2_index) \cup Owners(ingester.hnsw_index) \subseteq DOMAIN mongo)
    /\ [][\A w \in Writers :
             ~InCall(writers[w]) =>
                 (writers'[w] = writers[w] \/ writers'[w].stages = <<>>)]_vars

\* One call has returned after all its statements while another has raised
\* at the exact index's file write, after its insert and both appends.
C16_Witness ==
    /\ \E w \in Writers : writers[w].pc = "returned" /\ Len(writers[w].stages) = 7
    /\ \E w \in Writers :
          /\ writers[w].pc = "raised"
          /\ writers[w].stages = SubSeq(Statements, 1, 6)
          /\ writers[w].name \in Owners(ingester.hnsw_index)

\* C17: after two ingest_data calls made from two threads have both
\* returned, each document's vector is at one position, the same in the
\* exact and in the approximate index, in memory and in both files.
C17_ConcurrentIngestsAligned ==
    (\A w \in Writers : writers[w].pc = "returned") =>
        /\ \A w \in Writers :
              /\ Positions(ingester.l2_index, writers[w].name) = 1
              /\ Positions(ingester.hnsw_index, writers[w].name) = 1
        /\ ingester.l2_index = ingester.hnsw_index
        /\ WriteThrough

\* C18: a get_data that ran while an ingest_data was in another thread saw
\* that ingest's record in the collection exactly if it saw that ingest's
\* vector in the index it searched.
C18_NoTornRead ==
    reader.pc = "returned" =>
        \A name \in reader.overlap :
            (name \in reader.seen_mongo) <=> (name \in reader.seen_index)

\* C19: when the response of a /generate request has ended and the client
\* had disconnected before the engine produced the request's last output,
\* the handler has called engine.abort with the request_id it passed to
\* engine.generate, in the streaming and in the non-streaming case.
C19_DisconnectAborts ==
    \A c \in Connections :
        (requests[c].pc = "done" /\ requests[c].early) =>
            /\ requests[c].request_id \in engine.generated
            /\ requests[c].request_id \in engine.aborted

\* C20: however the threads' constructor calls interleave, one object is
\* created and _initialize is entered once (when a call has returned it has
\* been entered, or the thread that created the object is about to enter
\* it), and every call that has returned got that one instance.
C20_OneInstance ==
    /\ manager.initialize_runs <= 1
    /\ manager.created <= 1
    /\ \A t \in Threads :
          callers[t].got # None =>
              /\ callers[t].got = manager.instance
              /\ manager.initialize_runs = 1 \/ \E u \in Threads : At(u, "initialize")
    /\ \A t, u \in Threads :
          (callers[t].got # None /\ callers[u].got # None) => callers[t].got = callers[u].got

\* One thread has returned with the instance while another, which had found
\* no instance before the lock, holds the lock and finds the instance there,
\* and a third has returned as well.
C20_Witness ==
    \E t, u, v \in Threads :
        /\ t # u /\ u # v /\ t # v
        /\ callers[t].pc = "done" /\ callers[t].got # None
        /\ callers[u].pc = "new_check" /\ manager.lock = u /\ manager.instance # None
        /\ callers[v].pc = "done" /\ callers[v].got = callers[t].got

---------------------------------------------------------------------------
(* C21: VLLMEngineManager.get_engine returns the engine instance in every
   state, initializing the engine first if it has not been initialized:
   a call of get_engine never raises, and what it returns is the engine
   the manager holds after the call. *)
C21_GetEngineReturns ==
    engine_manager.call.op = "get_engine" =>
        /\ engine_manager.call.outcome = "returned"
        /\ engine_manager.call.value # None
        /\ engine_manager.engine = engine_manager.call.value

---------------------------------------------------------------------------
(* C22: POST /v1/reranker returns min(number of input documents, TOP_K)
   documents, each one of the request's documents (no document of the
   request more often than the request has it), ordered by non-increasing
   reranker score. *)
C22_RerankerTopK ==
    reranker.status = 200 =>
        LET n == Len(reranker.documents)
            out == reranker.reranked_documents
            from == reranker.reranked_from
        IN  /\ Len(out) = IF n <= TOP_K THEN n ELSE TOP_K
            /\ Len(from) = Len(out)
            /\ \A p \in 1..Len(out) :
                   /\ from[p] \in 1..n
                   /\ out[p] = reranker.documents[from[p]]
            /\ \A p, q \in 1..Len(out) :
                   /\ p # q => from[p] # from[q]
                   /\ p < q => reranker.scores[from[p]] >= reranker.scores[from[q]]

\* A response that leaves out a document of the request and holds
\* documents of different scores.
C22_Witness ==
    /\ reranker.status = 200
    /\ Len(reranker.documents) > TOP_K
    /\ Len(reranker.reranked_documents) = TOP_K
    /\ \E p, q \in 1..TOP_K :
           reranker.scores[reranker.reranked_from[p]]
               > reranker.scores[reranker.reranked_from[q]]

---------------------------------------------------------------------------
(* C23: launching the vLLM server runs the built command exactly once with
   check=True; if that subprocess fails with CalledProcessError the
   launcher raises RuntimeError with the message 'Failed to start the vLLM
   server.', and if it succeeds the launcher raises nothing. *)
C23_LaunchOnce ==
    /\ launcher.pc \in {"start", "built"} => launcher.runs = <<>>
    /\ launcher.pc \in {"ended", "raised"} =>
           /\ Len(launcher.runs) = 1
           /\ launcher.runs[1].command = launcher.command
           /\ launcher.runs[1].check
           /\ launcher.runs[1].outcome = "CalledProcessError" =>
                  /\ launcher.pc = "raised"
                  /\ launcher.raised = "RuntimeError: Failed to start the vLLM server."
           /\ launcher.runs[1].outcome = "exit0" =>
                  /\ launcher.pc = "ended"
                  /\ launcher.raised = "none"

\* A launch whose subprocess failed, with both optional flags in the command.
C23_Witness ==
    /\ launcher.pc = "raised"
    /\ launcher.runs[1].outcome = "CalledProcessError"
    /\ Len(launcher.command) = Len(base_command) + 3

---------------------------------------------------------------------------
(* C24: after ingest_data for a document has returned successfully, a later
   get_data on the same VDBService searches an index that contains that
   document's vector: when get_data has run, the index the retriever
   searched holds the vector of every document the service's ingester has
   added. *)
C24_RetrieverSeesIngests ==
    last.op = "get_data" /\ ~last.raised =>
        \A document_name \in DocIds :
            document_name \in Owners(ingester.l2_index)
                => document_name \in Owners(retriever.l2_index)

---------------------------------------------------------------------------
(* C25: if the process stops at any point during add_embeddings (between
   the two appends or between the two file writes) and both indexes are
   then reloaded from their files, the reloaded exact and approximate
   indexes have the same size.  Checked where a call was cut off by the
   stop and the service has loaded the files, before any new call. *)
C25_StopKeepsSizes ==
    /\ \E w \in Writers : writers[w].pc = "stopped"
    /\ \A w \in Writers : ~InCall(writers[w])
    /\ ingester = LoadBoth(files)
    => Len(ingester.l2_index) = Len(ingester.hnsw_index)

---------------------------------------------------------------------------
(* C26: delete_data on a document that exists deletes its record from the
   DocumentStore and also passes that document's recorded vector position
   to deletor.delete_embeddings: the position lookup made by delete_data
   finds the document. *)
C26_DeletePassesPosition ==
    last.op = "delete_data" /\ last.stage = "deleted" =>
        /\ last.id \notin DOMAIN mongo
        /\ Len(last.indices) = 1
        /\ \E i \in 1..Len(ingester.l2_index) :
               /\ ingester.l2_index[i].of = last.id
               /\ last.indices[1] = i - 1

---------------------------------------------------------------------------
(* C27: no caller of ModelsManager() ever receives an instance whose
   _initialize has not completed successfully: neither a thread that
   constructs while the first construction is still loading models, nor a
   caller that constructs after an earlier _initialize raised. *)
C27_OnlyInitialized ==
    \A t \in Threads :
        (callers[t].pc = "done" /\ callers[t].got # None) =>
            callers[t].got \in manager.loaded

---------------------------------------------------------------------------
(* C28: MongoDBManager's constructor tries the configured hosts in list
   order and stops at the first host whose ping succeeds, recording it as
   connected_host; if no host's ping succeeds it raises ConnectionError, so
   every constructed manager has a non-None connected_host. *)
C28_ConnectedOrError ==
    LET m == mongodb_manager
        pinged == {i \in 1..Len(m.hosts) : m.answers[i] = "ok"}
    IN  m.pc # "none" =>
            /\ \A i \in pinged :
                   (\A j \in pinged : i <= j) =>
                       /\ m.pc = "constructed"
                       /\ m.connected_host = m.hosts[i]
                       /\ m.tried = SubSeq(m.hosts, 1, i)
            /\ pinged = {} => m.pc = "raised" /\ m.raised = "ConnectionError"
            /\ m.pc = "constructed" => m.connected_host # NoHost

---------------------------------------------------------------------------
(* C29: in any sequence of initialize_engine, shutdown_engine and /generate
   calls: initialize_engine constructs an engine only when none is held and
   leaves a held engine unchanged, shutdown_engine always leaves the manager
   holding no engine, and /generate answers 500 without calling generate on
   any engine whenever no engine is held. *)
C29_EngineLifecycle ==
    /\ [](engine_manager.call.op = "shutdown_engine" => engine_manager.engine = None)
    /\ [][/\ engine_manager'.constructed # engine_manager.constructed =>
                 /\ engine_manager.engine = None
                 /\ engine_manager'.call.op = "initialize_engine"
                 /\ engine_manager'.constructed = engine_manager.constructed + 1
                 /\ engine_manager'.engine = engine_manager'.constructed
          /\ (engine_manager.engine # None /\ engine_manager'.call.op # "shutdown_engine") =>
                 engine_manager'.engine = engine_manager.engine
          /\ \A c \in Connections :
                 (/\ engine_manager.engine = None
                  /\ requests[c].pc \in {"none", "done"}
                  /\ requests'[c] # requests[c]) =>
                     /\ requests'[c].pc = "done"
                     /\ requests'[c].status = 500
                     /\ engine' = engine
       ]_vars

\* An engine was constructed and shut down, a second one is held, and a
\* request made while none was held has been answered 500 without a request
\* id.
C29_Witness ==
    /\ engine_manager.constructed = 2
    /\ engine_manager.engine = 2
    /\ engine_manager.call = EngineCall("initialize_engine", "returned", None)
    /\ \E c \in Connections :
           /\ requests[c].pc = "done"
           /\ requests[c].status = 500
           /\ requests[c].request_id = 0
    /\ engine.generated # {}

---------------------------------------------------------------------------
(* C30: in non-streaming mode, for every finite sequence of engine outputs
   of any length, /generate either returns 499 after aborting on a detected
   disconnect or returns the text of the last output the engine produced;
   the assertion that a final output exists holds on every path that
   reaches it. *)
C30_NonStreamingReturnsLast ==
    \A c \in Connections :
        (requests[c].pc = "done" /\ ~requests[c].stream /\ requests[c].request_id # 0) =>
            \/ /\ requests[c].status = 499
               /\ requests[c].disconnected
               /\ requests[c].request_id \in engine.aborted
            \/ /\ requests[c].status = 200
               /\ requests[c].final # 0
               /\ requests[c].final = requests[c].outputs

====
